---- MODULE Spec2Model ----
(***************************************************************************)
(* Model of the LOG type plugin (Types/LOG): LOGFile::Update and the       *)
(* format detector, the four line parsers, the statistics pass and the     *)
(* lexical tokenizer it is built from.                                     *)
(*                                                                         *)
(* Text is modelled by TLA+ strings; a character is a string of length 1.  *)
(* Offsets are 0-based as in the C++ code.                                 *)
(***************************************************************************)
EXTENDS Integers, Sequences, FiniteSets, TLC

VARIABLES
    data,            \* bytes of the byte source behind obj->GetData()
    valid,           \* obj.IsValid()
    detectedFormat,  \* LOGFile::detectedFormat
    entries,         \* LOGFile::entries
    stats,           \* LOGFile::stats
    ret,             \* result of the last Update() call: "none", "true", "false"
    readEnd,         \* history: 1 + highest buffer offset read by the last Update()
    parsed,          \* history: content handed to the parsers by the last successful Update()
    docA, docB,      \* two documents given to the detector, and the formats it
    fmtA, fmtB,      \*   returned for them ("none" before the call)
    loopKind,        \* which scan loop is being stepped
    text,            \* its input
    pos,             \* its scan position
    lineNum,         \* the parsers' line counter
    tokens,          \* spans emitted by the tokenizer so far
    iters,           \* history: iterations of the outer loop executed so far
    token,           \* a token given to the level classifier alone
    tokenLevel       \* the level it returned for it ("none" before the call)

sessionVars == <<data, valid, detectedFormat, entries, stats, ret, readEnd, parsed>>
detectVars  == <<docA, docB, fmtA, fmtB>>
loopVars    == <<loopKind, text, pos, lineNum, tokens, iters>>
classifyVars == <<token, tokenLevel>>
vars        == <<data, valid, detectedFormat, entries, stats, ret, readEnd, parsed,
                 docA, docB, fmtA, fmtB, loopKind, text, pos, lineNum, tokens, iters,
                 token, tokenLevel>>

-----------------------------------------------------------------------------
(* std::string_view primitives *)

\* std::string_view::npos, the largest size_t; here the largest integer TLC holds
NPOS == 2147483647

Min(a, b) == IF a <= b THEN a ELSE b
Max(a, b) == IF a >= b THEN a ELSE b

\* least element of a set of offsets
MinOf(S) == CHOOSE i \in S : \A j \in S : i <= j

\* s[i]
At(s, i) == SubSeq(s, i + 1, i + 1)

\* size_t subtraction, wrapping modulo NPOS + 1
SizeSub(a, b) == IF a >= b THEN a - b ELSE (NPOS - (b - a)) + 1

\* s.substr(from, count): count is clamped to the end of s
Substr(s, from, count) ==
    IF count >= Len(s) - from THEN SubSeq(s, from + 1, Len(s))
    ELSE SubSeq(s, from + 1, from + count)

\* s.substr(from)
SubstrFrom(s, from) == SubSeq(s, from + 1, Len(s))

\* s.find(p) != npos
Has(s, p) == \E i \in 0 .. (Len(s) - Len(p)) : SubSeq(s, i + 1, i + Len(p)) = p

\* s.find(p, from): offset of the first occurrence of p at or after from, NPOS
\* (which is larger than every offset) when there is none
Find(s, p, from) ==
    MinOf({ i \in from .. (Len(s) - Len(p)) : SubSeq(s, i + 1, i + Len(p)) = p } \cup {NPOS})

\* s.find_first_of(chars)
FindFirstOf(s, chars) ==
    MinOf({ i \in 0 .. (Len(s) - 1) : Has(chars, At(s, i)) } \cup {NPOS})

LowerChars == "abcdefghijklmnopqrstuvwxyz"
UpperChars == "ABCDEFGHIJKLMNOPQRSTUVWXYZ"
DigitChars == "0123456789"

IsDigit(c)  == Len(c) = 1 /\ Has(DigitChars, c)
IsLetter(c) == Len(c) = 1 /\ (Has(LowerChars, c) \/ Has(UpperChars, c))

\* std::toupper on one character
ToUpperChar(c) ==
    LET i == Find(LowerChars, c, 0)
    IN  IF i = NPOS THEN c ELSE At(UpperChars, i)

\* the character-by-character uppercase copies made by the parsers
RECURSIVE ToUpper(_)
ToUpper(s) == IF s = "" THEN "" ELSE ToUpperChar(Head(s)) \o ToUpper(Tail(s))

\* number of leading decimal digits of s
RECURSIVE DigitRun(_)
DigitRun(s) == IF s # "" /\ IsDigit(Head(s)) THEN 1 + DigitRun(Tail(s)) ELSE 0

\* value of a string of decimal digits
RECURSIVE DigitsValue(_, _)
DigitsValue(s, acc) ==
    IF s = "" THEN acc
    ELSE DigitsValue(Tail(s), acc * 10 + Find(DigitChars, Head(s), 0))

\* std::atoi(p) where p points at a digit: converts the digits found in memory
\* from p on, up to the first byte that is not a digit
Atoi(mem) == DigitsValue(SubSeq(mem, 1, DigitRun(mem)), 0)

-----------------------------------------------------------------------------
(* LogLevel, LogFormat, LogEntry, LogStatistics (log.hpp) *)

LogLevel == {"Unknown", "Trace", "Debug", "Info", "Warning", "Error", "Fatal", "Critical"}

LogFormat == {"Unknown", "Apache", "ApacheError", "Syslog", "WindowsEvent", "IIS",
              "Log4j", "JSON", "Custom"}

\* LogEntry::LogEntry()
LogEntry ==
    [lineStart |-> 0, lineEnd |-> 0, lineNumber |-> 0, timestamp |-> "",
     level |-> "Unknown", source |-> "", message |-> "", ipAddress |-> "",
     httpMethod |-> "", url |-> "", httpStatus |-> 0, responseSize |-> 0,
     userAgent |-> "", referer |-> ""]

\* LogStatistics::LogStatistics()
LogStatistics ==
    [totalLines |-> 0, errorCount |-> 0, warningCount |-> 0, infoCount |-> 0,
     debugCount |-> 0, traceCount |-> 0, fatalCount |-> 0, unknownCount |-> 0,
     http2xxCount |-> 0, http3xxCount |-> 0, http4xxCount |-> 0, http5xxCount |-> 0,
     firstTimestamp |-> "", lastTimestamp |-> ""]

-----------------------------------------------------------------------------
(* LOGFile::DetectLogFormat *)

\* size of the sample the detector looks at
SAMPLE_SIZE == 4096

\* Sample that takes the whole content
Sample_Whole(content) == content

Sample(content) == Substr(content, 0, Min(Len(content), SAMPLE_SIZE))

IsApacheSample(sample) ==
    /\ Has(sample, " - - [")
    /\ \/ Has(sample, "\" 200 ")
       \/ Has(sample, "\" 404 ")
       \/ Has(sample, "\" 500 ")
       \/ Has(sample, "GET ")
       \/ Has(sample, "POST ")

IsApacheErrorSample(sample) ==
    \/ Has(sample, "[error]")
    \/ Has(sample, "[warn]")
    \/ Has(sample, "[notice]")
    \/ Has(sample, "[crit]")

hasSyslogMonth(sample) ==
    \E m \in {"Jan ", "Feb ", "Mar ", "Apr ", "May ", "Jun ",
              "Jul ", "Aug ", "Sep ", "Oct ", "Nov ", "Dec "} : Has(sample, m)

IsSyslogSample(sample) == hasSyslogMonth(sample) /\ Has(sample, "]: ")

IsLog4jSample(sample) ==
    /\ \/ Has(sample, " INFO ")
       \/ Has(sample, " DEBUG ")
       \/ Has(sample, " ERROR ")
       \/ Has(sample, " WARN ")
       \/ Has(sample, "[INFO]")
       \/ Has(sample, "[DEBUG]")
       \/ Has(sample, "[ERROR]")
       \/ Has(sample, "[WARN]")
    /\ Has(sample, " - ")

IsJSONSample(sample) ==
    /\ Has(sample, "{\"")
    /\ \/ Has(sample, "\"timestamp\"")
       \/ Has(sample, "\"level\"")
       \/ Has(sample, "\"message\"")

\* DetectOnSample with the Log4j rule tried first and the Syslog rule second
DetectOnSample_Reordered(sample) ==
    IF IsLog4jSample(sample) THEN "Log4j"
    ELSE IF IsSyslogSample(sample) THEN "Syslog"
    ELSE IF IsApacheSample(sample) THEN "Apache"
    ELSE IF IsApacheErrorSample(sample) THEN "ApacheError"
    ELSE IF IsJSONSample(sample) THEN "JSON"
    ELSE "Custom"

\* DetectOnSample leaving the format at its initial value when no rule matches
DetectOnSample_NoDefault(sample) ==
    IF IsApacheSample(sample) THEN "Apache"
    ELSE IF IsApacheErrorSample(sample) THEN "ApacheError"
    ELSE IF IsSyslogSample(sample) THEN "Syslog"
    ELSE IF IsLog4jSample(sample) THEN "Log4j"
    ELSE IF IsJSONSample(sample) THEN "JSON"
    ELSE "Unknown"

DetectOnSample(sample) ==
    IF IsApacheSample(sample) THEN "Apache"
    ELSE IF IsApacheErrorSample(sample) THEN "ApacheError"
    ELSE IF IsSyslogSample(sample) THEN "Syslog"
    ELSE IF IsLog4jSample(sample) THEN "Log4j"
    ELSE IF IsJSONSample(sample) THEN "JSON"
    ELSE "Custom"

DetectLogFormat(content) == DetectOnSample(Sample(content))

-----------------------------------------------------------------------------
(* LOGFile::ParseLogLevel *)

\* LevelOfUpper with a level of its own for CRIT and CRITICAL
LevelOfUpper_Critical(upper) ==
    IF upper \in {"TRACE", "TRC"} THEN "Trace"
    ELSE IF upper \in {"DEBUG", "DBG", "DEBU"} THEN "Debug"
    ELSE IF upper \in {"INFO", "INF", "INFORMATION", "NOTICE"} THEN "Info"
    ELSE IF upper \in {"WARN", "WARNING", "WRN"} THEN "Warning"
    ELSE IF upper \in {"ERROR", "ERR", "ERRO"} THEN "Error"
    ELSE IF upper \in {"FATAL", "FTL"} THEN "Fatal"
    ELSE IF upper \in {"CRIT", "CRITICAL"} THEN "Critical"
    ELSE "Unknown"

\* the comparisons made on the uppercase copy
LevelOfUpper(upper) ==
    IF upper \in {"TRACE", "TRC"} THEN "Trace"
    ELSE IF upper \in {"DEBUG", "DBG", "DEBU"} THEN "Debug"
    ELSE IF upper \in {"INFO", "INF", "INFORMATION", "NOTICE"} THEN "Info"
    ELSE IF upper \in {"WARN", "WARNING", "WRN"} THEN "Warning"
    ELSE IF upper \in {"ERROR", "ERR", "ERRO"} THEN "Error"
    ELSE IF upper \in {"FATAL", "FTL", "CRIT", "CRITICAL"} THEN "Fatal"
    ELSE "Unknown"

\* ParseLogLevel that compares the token as it is given
ParseLogLevel_CaseSensitive(levelStr) == LevelOfUpper(levelStr)

ParseLogLevel(levelStr) == LevelOfUpper(ToUpper(levelStr))

-----------------------------------------------------------------------------
(* The line scan shared by the four parsers *)

\* lineEnd = content.find('\n', pos); if (lineEnd == npos) lineEnd = content.size()
LineEnd(content, p) ==
    LET nl == Find(content, "\n", p)
    IN  IF nl = NPOS THEN Len(content) ELSE nl

\* if (!line.empty() && line.back() == '\r') line = line.substr(0, line.size() - 1)
DropCR(line) ==
    IF line # "" /\ At(line, Len(line) - 1) = "\r" THEN Substr(line, 0, Len(line) - 1) ELSE line

\* LineAt whose lineEnd leaves out the trailing '\r'
LineAt_TrimmedEnd(content, p, lineEnd) ==
    [lineStart |-> p,
     lineEnd   |-> p + Len(DropCR(Substr(content, p, lineEnd - p))),
     line      |-> DropCR(Substr(content, p, lineEnd - p))]

\* the line of content between offsets p and lineEnd: its offsets, and its
\* text with one trailing '\r' removed
LineAt(content, p, lineEnd) ==
    [lineStart |-> p,
     lineEnd   |-> lineEnd,
     line      |-> DropCR(Substr(content, p, lineEnd - p))]

\* the line of content that starts at offset p
ScanLine(content, p) == LineAt(content, p, LineEnd(content, p))

\* LogEntry entry; entry.lineStart = ...; entry.lineEnd = ...; entry.lineNumber = ...
NewEntry(ln, num) ==
    [LogEntry EXCEPT !.lineStart = ln.lineStart, !.lineEnd = ln.lineEnd, !.lineNumber = num]

-----------------------------------------------------------------------------
(* LOGFile::ParseApacheLog, body of the line loop *)

\* LevelOfStatus with > in place of >=
LevelOfStatus_StrictBounds(httpStatus) ==
    IF httpStatus > 500 THEN "Error"
    ELSE IF httpStatus > 400 THEN "Warning"
    ELSE "Info"

\* severity of a record whose status was converted
LevelOfStatus(httpStatus) ==
    IF httpStatus >= 500 THEN "Error"
    ELSE IF httpStatus >= 400 THEN "Warning"
    ELSE "Info"

\* offset of the closing quote of the request, NPOS when there is no quoted request
ApacheReqEnd(line) ==
    LET reqStart == Find(line, "\"", 0)
    IN  IF reqStart = NPOS THEN NPOS ELSE Find(line, "\"", reqStart + 1)

\* offset in line of the first digit behind the closing quote at reqEnd
ApacheNumStartAfter(line, reqEnd) ==
    IF reqEnd = NPOS THEN NPOS
    ELSE LET numStart == FindFirstOf(SubstrFrom(line, reqEnd + 1), DigitChars)
         IN  IF numStart = NPOS THEN NPOS ELSE reqEnd + 1 + numStart

\* offset in line of the byte handed to std::atoi, NPOS when no conversion is made
ApacheNumStart(line) ==
    IF Find(line, " ", 0) = NPOS THEN NPOS
    ELSE ApacheNumStartAfter(line, ApacheReqEnd(line))

\* httpMethod and url from the text between the quotes
ApacheRequest(entry, request, methodEnd) ==
    IF methodEnd = NPOS THEN entry
    ELSE LET urlEnd == Find(request, " ", methodEnd + 1)
         IN  [entry EXCEPT !.httpMethod = Substr(request, 0, methodEnd),
                           !.url = IF urlEnd = NPOS THEN @
                                   ELSE Substr(request, methodEnd + 1, urlEnd - methodEnd - 1)]

\* entry.httpStatus = std::atoi(...) and the level that follows from it
ApacheStatus(entry, status) ==
    [entry EXCEPT !.httpStatus = status, !.level = LevelOfStatus(status)]

\* body of if (ipEnd != npos), given the offsets the code finds in the line
ApacheFields(entry, ln, mem, ipEnd, tsStart, tsEnd, reqStart, reqEnd, numAt) ==
    LET line    == ln.line
        request == Substr(line, reqStart + 1, reqEnd - reqStart - 1)
        e1 == [entry EXCEPT
                 !.ipAddress = Substr(line, 0, ipEnd),
                 !.timestamp = IF tsStart # NPOS /\ tsEnd # NPOS
                               THEN Substr(line, tsStart + 1, SizeSub(SizeSub(tsEnd, tsStart), 1))
                               ELSE @,
                 !.message   = line]
        e2 == IF reqEnd = NPOS THEN e1
              ELSE ApacheRequest(e1, request, Find(request, " ", 0))
    IN  IF numAt = NPOS THEN e2
        ELSE ApacheStatus(e2, Atoi(SubstrFrom(mem, ln.lineStart + numAt)))

\* mem is the memory the content view points into: the content followed by
\* whatever bytes lie behind the buffer.  std::atoi is handed a pointer into
\* it and does not know where the view ends.
ApacheEntry(ln, num, mem) ==
    IF Find(ln.line, " ", 0) = NPOS THEN NewEntry(ln, num)
    ELSE ApacheFields(NewEntry(ln, num), ln, mem,
                      Find(ln.line, " ", 0), Find(ln.line, "[", 0), Find(ln.line, "]", 0),
                      Find(ln.line, "\"", 0), ApacheReqEnd(ln.line), ApacheNumStart(ln.line))

\* 1 + offset of the last byte std::atoi looks at when it is handed offset at
\* of mem (the byte that ends the digits), 0 when no conversion is made
AtoiReadEndAt(mem, lineStart, numAt) ==
    IF numAt = NPOS THEN 0
    ELSE lineStart + numAt + DigitRun(SubstrFrom(mem, lineStart + numAt)) + 1

AtoiReadEnd(ln, mem) == AtoiReadEndAt(mem, ln.lineStart, ApacheNumStart(ln.line))

-----------------------------------------------------------------------------
(* LOGFile::ParseSyslog, body of the line loop *)

\* level from the uppercase copy of the message
SyslogLevel(upperMsg) ==
    IF Has(upperMsg, "ERROR") \/ Has(upperMsg, "FAIL") THEN "Error"
    ELSE IF Has(upperMsg, "WARN") THEN "Warning"
    ELSE IF Has(upperMsg, "DEBUG") THEN "Debug"
    ELSE "Info"

\* entry.source from the text between offset 16 and the colon
SyslogSource(entry, sourcePart, spacePos) ==
    IF spacePos # NPOS THEN [entry EXCEPT !.source = SubstrFrom(sourcePart, spacePos + 1)]
    ELSE entry

\* body of if (colonPos != npos && colonPos > 15)
SyslogSplit(entry, line, colonPos, sourcePart) ==
    [SyslogSource(entry, sourcePart, Find(sourcePart, " ", 0))
       EXCEPT !.message = SubstrFrom(line, colonPos + 2)]

\* timestamp, source and message of a line whose ": " is at colonPos
SyslogFields(entry, line, colonPos) ==
    LET e1 == [entry EXCEPT !.message = line,
                            !.timestamp = IF Len(line) >= 15 THEN Substr(line, 0, 15) ELSE @]
    IN  IF colonPos # NPOS /\ colonPos > 15
        THEN SyslogSplit(e1, line, colonPos, Substr(line, 16, colonPos - 16))
        ELSE e1

\* the level is detected on the message the record ends up with
SyslogLevelOf(entry) == [entry EXCEPT !.level = SyslogLevel(ToUpper(entry.message))]

\* SyslogEntry whose level is detected on the whole line
SyslogEntry_LevelFromLine(ln, num) ==
    [SyslogFields(NewEntry(ln, num), ln.line, Find(ln.line, ": ", 0))
       EXCEPT !.level = SyslogLevel(ToUpper(ln.line))]

SyslogEntry(ln, num) ==
    SyslogLevelOf(SyslogFields(NewEntry(ln, num), ln.line, Find(ln.line, ": ", 0)))

-----------------------------------------------------------------------------
(* LOGFile::ParseLog4j, body of the line loop *)

\* levels with WARNING in front of WARN
levels_WarningFirst ==
    <<"TRACE", "DEBUG", "INFO", "WARNING", "WARN", "ERROR", "FATAL", "CRITICAL">>

levels == <<"TRACE", "DEBUG", "INFO", "WARN", "WARNING", "ERROR", "FATAL", "CRITICAL">>

RECURSIVE SkipSourceStart(_, _, _)
SkipSourceStart(remaining, sourceStart, msgStart) ==
    IF sourceStart < msgStart /\ At(remaining, sourceStart) \in {" ", "["}
    THEN SkipSourceStart(remaining, sourceStart + 1, msgStart)
    ELSE sourceStart

\* SkipSourceEnd that steps back over spaces only
RECURSIVE SkipSourceEnd_SpacesOnly(_, _, _)
SkipSourceEnd_SpacesOnly(remaining, sourceEnd, sourceStart) ==
    IF sourceEnd > sourceStart /\ At(remaining, sourceEnd - 1) = " "
    THEN SkipSourceEnd_SpacesOnly(remaining, sourceEnd - 1, sourceStart)
    ELSE sourceEnd

RECURSIVE SkipSourceEnd(_, _, _)
SkipSourceEnd(remaining, sourceEnd, sourceStart) ==
    IF sourceEnd > sourceStart /\ At(remaining, sourceEnd - 1) \in {" ", "]"}
    THEN SkipSourceEnd(remaining, sourceEnd - 1, sourceStart)
    ELSE sourceEnd

\* if (sourceEnd > sourceStart) entry.source = remaining.substr(...)
Log4jSource(entry, remaining, sourceStart, sourceEnd) ==
    IF sourceEnd > sourceStart
    THEN [entry EXCEPT !.source = Substr(remaining, sourceStart, sourceEnd - sourceStart)]
    ELSE entry

\* body of if (msgStart != npos), given the sourceStart the first loop stops at
Log4jLogger(entry, remaining, sourceStart, msgStart) ==
    [Log4jSource(entry, remaining, sourceStart, SkipSourceEnd(remaining, msgStart, sourceStart))
       EXCEPT !.message = SubstrFrom(remaining, msgStart + 3)]

\* source and message of a line whose level keyword ends at afterLvl
Log4jMessage(entry, remaining, afterLvl, msgStart) ==
    IF msgStart # NPOS
    THEN Log4jLogger(entry, remaining, SkipSourceStart(remaining, afterLvl, msgStart), msgStart)
    ELSE [entry EXCEPT !.message = SubstrFrom(remaining, afterLvl)]

\* body of if (lvlPos != npos && lvlPos < 20)
Log4jLevelFound(entry, remaining, lvl, lvlPos) ==
    Log4jMessage([entry EXCEPT !.level = ParseLogLevel(lvl)], remaining,
                 lvlPos + Len(lvl), Find(remaining, " - ", lvlPos))

\* Log4jLevelNear without the test lvlPos < 20
Log4jLevelNear_Anywhere(lvlPos) == lvlPos # NPOS

\* lvlPos != npos && lvlPos < 20
Log4jLevelNear(lvlPos) == lvlPos # NPOS /\ lvlPos < 20

\* for (const char* lvl : levels) ..., from the k-th keyword on
RECURSIVE Log4jLevelLoop(_, _, _)
Log4jLevelLoop(entry, remaining, k) ==
    IF k > Len(levels) THEN entry
    ELSE IF Log4jLevelNear(Find(remaining, levels[k], 0))
    THEN Log4jLevelFound(entry, remaining, levels[k], Find(remaining, levels[k], 0))
    ELSE Log4jLevelLoop(entry, remaining, k + 1)

Log4jTimestampEnd(line) ==
    IF Len(line) >= 19 /\ At(line, 4) \in {"-", "/"} /\ At(line, 7) \in {"-", "/"}
    THEN IF Len(line) > 23 /\ At(line, 19) \in {".", ","} THEN 23 ELSE 19
    ELSE 0

\* if (entry.message.empty()) entry.message = line
Log4jMessageOrLine(entry, line) ==
    IF entry.message = "" THEN [entry EXCEPT !.message = line] ELSE entry

\* the record of a line whose timestamp ends at timestampEnd (0: no timestamp)
Log4jFields(entry, line, timestampEnd) ==
    Log4jMessageOrLine(
        Log4jLevelLoop(
            IF timestampEnd > 0
            THEN [entry EXCEPT !.timestamp = Substr(line, 0, timestampEnd)] ELSE entry,
            IF timestampEnd > 0 THEN SubstrFrom(line, timestampEnd) ELSE line,
            1),
        line)

Log4jEntry(ln, num) ==
    Log4jFields([NewEntry(ln, num) EXCEPT !.level = "Unknown"], ln.line,
                Log4jTimestampEnd(ln.line))

-----------------------------------------------------------------------------
(* LOGFile::ParseGenericLog, body of the line loop *)

GenericTimestamp(line) ==
    IF At(line, 0) = "["
    THEN LET bracketEnd == Find(line, "]", 0)
         IN  IF bracketEnd # NPOS THEN Substr(line, 1, bracketEnd - 1) ELSE ""
    ELSE IF Len(line) >= 10 /\ At(line, 4) = "-" /\ At(line, 7) = "-"
    THEN LET tsEnd == IF Len(line) > 19 /\ At(line, 10) = " " /\ At(line, 13) = ":"
                      THEN IF Len(line) > 23 /\ At(line, 19) \in {".", ","} THEN 23 ELSE 19
                      ELSE 10
         IN  Substr(line, 0, tsEnd)
    ELSE ""

\* GenericLevel with the ERROR test in front of the FATAL test
GenericLevel_ErrorFirst(upperLine) ==
    IF Has(upperLine, "ERROR") \/ Has(upperLine, "EXCEPTION") \/ Has(upperLine, "FAIL")
    THEN "Error"
    ELSE IF Has(upperLine, "FATAL") \/ Has(upperLine, "CRITICAL") THEN "Fatal"
    ELSE IF Has(upperLine, "WARN") THEN "Warning"
    ELSE IF Has(upperLine, "DEBUG") THEN "Debug"
    ELSE IF Has(upperLine, "TRACE") THEN "Trace"
    ELSE IF Has(upperLine, "INFO") THEN "Info"
    ELSE "Unknown"

\* level from the uppercase copy of the line
GenericLevel(upperLine) ==
    IF Has(upperLine, "FATAL") \/ Has(upperLine, "CRITICAL") THEN "Fatal"
    ELSE IF Has(upperLine, "ERROR") \/ Has(upperLine, "EXCEPTION") \/ Has(upperLine, "FAIL")
    THEN "Error"
    ELSE IF Has(upperLine, "WARN") THEN "Warning"
    ELSE IF Has(upperLine, "DEBUG") THEN "Debug"
    ELSE IF Has(upperLine, "TRACE") THEN "Trace"
    ELSE IF Has(upperLine, "INFO") THEN "Info"
    ELSE "Unknown"

GenericEntry(ln, num) ==
    [NewEntry(ln, num) EXCEPT !.message = ln.line,
                              !.timestamp = GenericTimestamp(ln.line),
                              !.level = GenericLevel(ToUpper(ln.line))]

-----------------------------------------------------------------------------
(* The while (pos < content.size()) loop of the four parsers *)

\* State of a parser loop: pos, lineNum, the entries vector it appends to, and
\* (history) 1 + the highest offset it has read
LoopStart(es) == [pos |-> 0, lineNum |-> 1, entries |-> es, readEnd |-> 0]

\* NextPos that does not step over the line end
NextPos_Stays(lineEnd) == lineEnd

\* pos = lineEnd + 1
NextPos(lineEnd) == lineEnd + 1

\* the record the parser kind makes of a non-empty line
EntryOf(kind, ln, num, mem) ==
    CASE kind = "Apache" -> ApacheEntry(ln, num, mem)
      [] kind = "Syslog" -> SyslogEntry(ln, num)
      [] kind = "Log4j"  -> Log4jEntry(ln, num)
      [] OTHER           -> GenericEntry(ln, num)

\* 1 + the highest offset read while the line ln was handled: the line scan
\* reads up to the '\n' it finds, std::atoi up to the byte that ends the digits
LineReadEnd(kind, content, mem, ln) ==
    Max(Min(ln.lineEnd + 1, Len(content)),
        IF kind = "Apache" /\ ln.line # "" THEN AtoiReadEnd(ln, mem) ELSE 0)

\* ParseLine whose lineNum++ sits inside if (!line.empty())
ParseLine_CountsRecords(kind, content, mem, st, ln) ==
    [pos      |-> NextPos(ln.lineEnd),
     lineNum  |-> IF ln.line # "" THEN st.lineNum + 1 ELSE st.lineNum,
     entries  |-> IF ln.line # "" THEN Append(st.entries, EntryOf(kind, ln, st.lineNum, mem))
                  ELSE st.entries,
     readEnd  |-> Max(st.readEnd, LineReadEnd(kind, content, mem, ln))]

\* the rest of an iteration once the line has been cut out
ParseLine(kind, content, mem, st, ln) ==
    [pos      |-> NextPos(ln.lineEnd),
     lineNum  |-> st.lineNum + 1,
     entries  |-> IF ln.line # "" THEN Append(st.entries, EntryOf(kind, ln, st.lineNum, mem))
                  ELSE st.entries,
     readEnd  |-> Max(st.readEnd, LineReadEnd(kind, content, mem, ln))]

\* One iteration of the loop of parser kind
ParseIter(kind, content, mem, st) ==
    ParseLine(kind, content, mem, st, ScanLine(content, st.pos))

RECURSIVE ParseLoop(_, _, _, _)
ParseLoop(kind, content, mem, st) ==
    IF st.pos < Len(content)
    THEN ParseLoop(kind, content, mem, ParseIter(kind, content, mem, st))
    ELSE st

ParseApacheLog(content, mem, es)  == ParseLoop("Apache", content, mem, LoopStart(es))
ParseSyslog(content, mem, es)     == ParseLoop("Syslog", content, mem, LoopStart(es))
ParseLog4j(content, mem, es)      == ParseLoop("Log4j", content, mem, LoopStart(es))
ParseGenericLog(content, mem, es) == ParseLoop("Generic", content, mem, LoopStart(es))

-----------------------------------------------------------------------------
(* LOGFile::UpdateStatistics *)

\* CountLevel without the default case of the switch
CountLevel_NoDefault(s, level) ==
    CASE level = "Trace"               -> [s EXCEPT !.traceCount = @ + 1]
      [] level = "Debug"               -> [s EXCEPT !.debugCount = @ + 1]
      [] level = "Info"                -> [s EXCEPT !.infoCount = @ + 1]
      [] level = "Warning"             -> [s EXCEPT !.warningCount = @ + 1]
      [] level = "Error"               -> [s EXCEPT !.errorCount = @ + 1]
      [] level \in {"Fatal", "Critical"} -> [s EXCEPT !.fatalCount = @ + 1]
      [] OTHER                         -> s

\* switch (entry.level)
CountLevel(s, level) ==
    CASE level = "Trace"               -> [s EXCEPT !.traceCount = @ + 1]
      [] level = "Debug"               -> [s EXCEPT !.debugCount = @ + 1]
      [] level = "Info"                -> [s EXCEPT !.infoCount = @ + 1]
      [] level = "Warning"             -> [s EXCEPT !.warningCount = @ + 1]
      [] level = "Error"               -> [s EXCEPT !.errorCount = @ + 1]
      [] level \in {"Fatal", "Critical"} -> [s EXCEPT !.fatalCount = @ + 1]
      [] OTHER                         -> [s EXCEPT !.unknownCount = @ + 1]

\* CountStatus as four separate tests, the 4xx test without its upper bound
CountStatus_NoUpperBound(s, httpStatus) ==
    LET s2 == IF httpStatus >= 200 /\ httpStatus < 300
              THEN [s EXCEPT !.http2xxCount = @ + 1] ELSE s
        s3 == IF httpStatus >= 300 /\ httpStatus < 400
              THEN [s2 EXCEPT !.http3xxCount = @ + 1] ELSE s2
        s4 == IF httpStatus >= 400 THEN [s3 EXCEPT !.http4xxCount = @ + 1] ELSE s3
    IN  IF httpStatus >= 500 THEN [s4 EXCEPT !.http5xxCount = @ + 1] ELSE s4

\* HTTP status statistics
CountStatus(s, httpStatus) ==
    IF httpStatus >= 200 /\ httpStatus < 300 THEN [s EXCEPT !.http2xxCount = @ + 1]
    ELSE IF httpStatus >= 300 /\ httpStatus < 400 THEN [s EXCEPT !.http3xxCount = @ + 1]
    ELSE IF httpStatus >= 400 /\ httpStatus < 500 THEN [s EXCEPT !.http4xxCount = @ + 1]
    ELSE IF httpStatus >= 500 THEN [s EXCEPT !.http5xxCount = @ + 1]
    ELSE s

\* for (const auto& entry : entries), from the i-th entry on
RECURSIVE CountEntries(_, _, _)
CountEntries(s, es, i) ==
    IF i > Len(es) THEN s
    ELSE CountEntries(CountStatus(CountLevel(s, es[i].level), es[i].httpStatus), es, i + 1)

\* forward scan for the first entry with a timestamp
RECURSIVE FirstTimestamp(_, _)
FirstTimestamp(es, i) ==
    IF i > Len(es) THEN ""
    ELSE IF es[i].timestamp # "" THEN es[i].timestamp
    ELSE FirstTimestamp(es, i + 1)

\* LastTimestamp that scans from the front, as the first loop does
LastTimestamp_FromFront(es, i) == FirstTimestamp(es, 1)

\* backward scan (rbegin .. rend) for the first entry with a timestamp
RECURSIVE LastTimestamp(_, _)
LastTimestamp(es, i) ==
    IF i < 1 THEN ""
    ELSE IF es[i].timestamp # "" THEN es[i].timestamp
    ELSE LastTimestamp(es, i - 1)

UpdateStatistics(es) ==
    LET s0 == [LogStatistics EXCEPT !.totalLines = Len(es)]
        s1 == CountEntries(s0, es, 1)
    IN  IF es # <<>>
        THEN [s1 EXCEPT !.firstTimestamp = FirstTimestamp(es, 1),
                        !.lastTimestamp  = LastTimestamp(es, Len(es))]
        ELSE s1

-----------------------------------------------------------------------------
(* LOGFile::Update *)

\* 50 MB limit for full parsing
MAX_PARSE_SIZE == 52428800

\* RunParser with a case that gives ApacheError to ParseApacheLog
RunParser_ErrorLogAsApache(fmt, content, mem, es) ==
    CASE fmt \in {"Apache", "ApacheError"} -> ParseApacheLog(content, mem, es)
      [] fmt = "Syslog" -> ParseSyslog(content, mem, es)
      [] fmt = "Log4j"  -> ParseLog4j(content, mem, es)
      [] OTHER          -> ParseGenericLog(content, mem, es)

\* switch (detectedFormat): the parser a format is given to
RunParser(fmt, content, mem, es) ==
    CASE fmt = "Apache" -> ParseApacheLog(content, mem, es)
      [] fmt = "Syslog" -> ParseSyslog(content, mem, es)
      [] fmt = "Log4j"  -> ParseLog4j(content, mem, es)
      [] OTHER          -> ParseGenericLog(content, mem, es)

\* The members an Update() call assigns, and what it returns
Session(r, fmt, es, st, rd, pd) ==
    [ret |-> r, detectedFormat |-> fmt, entries |-> es, stats |-> st,
     readEnd |-> rd, parsed |-> pd]

\* most digit bytes lying in memory directly behind the content buffer
MaxBehind == 1

\* what may lie in memory behind the buffer: up to n digits, then another byte
RECURSIVE BehindOf(_)
BehindOf(n) ==
    IF n = 0 THEN {"\n"}
    ELSE BehindOf(n - 1) \cup { "0" \o b : b \in BehindOf(n - 1) }

Behind == BehindOf(MaxBehind)

\* UpdateStatistics() and return true, once the parser has run
RefreshDone(fmt, content, run) ==
    Session("true", fmt, run.entries, UpdateStatistics(run.entries),
            Max(Len(Sample(content)), run.readEnd), content)

\* entries.clear() and the parser of the detected format.  The parser is
\* handed a view into memory in which anything may follow the content, so
\* this is the set of the outcomes it can have.
RefreshAs(fmt, content) ==
    { RefreshDone(fmt, content, RunParser(fmt, content, content \o behind, <<>>))
        : behind \in Behind }

\* Update() from the point where content has been taken from the buffer
RefreshContent(content) == RefreshAs(DetectLogFormat(content), content)

\* Update() from the point where the size is known to be positive
Refresh(bytes) == RefreshContent(Substr(bytes, 0, Min(Len(bytes), MAX_PARSE_SIZE)))

\* LOGFile_Update clearing the members when the source holds no bytes
LOGFile_Update_ClearsOnEmpty(isValid, bytes, cur) ==
    IF ~isValid THEN { [cur EXCEPT !.ret = "false", !.readEnd = 0] }
    ELSE IF Len(bytes) = 0
    THEN { Session("false", "Unknown", <<>>, LogStatistics, 0, cur.parsed) }
    ELSE Refresh(bytes)

\* LOGFile_Update clearing the members when obj refers to no object
LOGFile_Update_ClearsOnInvalid(isValid, bytes, cur) ==
    IF ~isValid THEN { Session("false", "Unknown", <<>>, LogStatistics, 0, cur.parsed) }
    ELSE IF Len(bytes) = 0 THEN { [cur EXCEPT !.ret = "false", !.readEnd = 0] }
    ELSE Refresh(bytes)

\* Update() as a function of obj and the members before the call (cur): the
\* set of the members and results the call can leave
LOGFile_Update(isValid, bytes, cur) ==
    IF ~isValid THEN { [cur EXCEPT !.ret = "false", !.readEnd = 0] }
    ELSE IF Len(bytes) = 0 THEN { [cur EXCEPT !.ret = "false", !.readEnd = 0] }
    ELSE Refresh(bytes)

-----------------------------------------------------------------------------
(* LOGFile::AnalyzeText *)

Token(type, start, end, color) == [type |-> type, start |-> start, end |-> end, color |-> color]

BracketChars == {"[", "]", "(", ")", "{", "}", "<", ">"}

\* while (pos < len && (text[pos] == ' ' || text[pos] == '\t')) pos++
RECURSIVE SkipSpaces(_, _)
SkipSpaces(txt, p) ==
    IF p < Len(txt) /\ At(txt, p) \in {" ", "\t"} THEN SkipSpaces(txt, p + 1) ELSE p

\* ScanString that steps over a backslash and the next character without
\* the test pos + 1 < len
RECURSIVE ScanString_NoEndCheck(_, _, _)
ScanString_NoEndCheck(txt, p, quote) ==
    IF p < Len(txt) /\ At(txt, p) # quote /\ At(txt, p) # "\n" /\ At(txt, p) # "\r"
    THEN IF At(txt, p) = "\\"
         THEN ScanString_NoEndCheck(txt, p + 2, quote)
         ELSE ScanString_NoEndCheck(txt, p + 1, quote)
    ELSE p

\* the loop over the inside of a quoted string, from offset p
RECURSIVE ScanString(_, _, _)
ScanString(txt, p, quote) ==
    IF p < Len(txt) /\ At(txt, p) # quote /\ At(txt, p) # "\n" /\ At(txt, p) # "\r"
    THEN IF At(txt, p) = "\\" /\ p + 1 < Len(txt)
         THEN ScanString(txt, p + 2, quote)
         ELSE ScanString(txt, p + 1, quote)
    ELSE p

\* the loop over a numeric run, from offset p
RECURSIVE ScanNumber(_, _)
ScanNumber(txt, p) ==
    IF p < Len(txt) /\ (IsDigit(At(txt, p)) \/ At(txt, p) \in {".", ":", "-", "/", "T", "Z", "+"})
    THEN ScanNumber(txt, p + 1)
    ELSE p

\* the loop over a word run, from offset p
RECURSIVE ScanWord(_, _)
ScanWord(txt, p) ==
    IF p < Len(txt) /\ (IsLetter(At(txt, p)) \/ IsDigit(At(txt, p)) \/ At(txt, p) \in {"_", "-", "."})
    THEN ScanWord(txt, p + 1)
    ELSE p

\* number of occurrences of character c in s
CountChar(s, c) == Cardinality({ i \in 0 .. (Len(s) - 1) : At(s, i) = c })

NumberToken_AtLeastThreeDots(txt, start, end) ==
    LET run      == Substr(txt, start, end - start)
        dotCount == CountChar(run, ".")
        hasColon == Has(run, ":")
        hasDash  == Has(run, "-")
    IN  IF dotCount >= 3 /\ ~hasColon /\ ~hasDash THEN Token("IPAddress", start, end, "Keyword2")
        ELSE IF hasDash \/ hasColon THEN Token("Timestamp", start, end, "Keyword")
        ELSE Token("Number", start, end, "Number")

NumberToken(txt, start, end) ==
    LET run      == Substr(txt, start, end - start)
        dotCount == CountChar(run, ".")
        hasColon == Has(run, ":")
        hasDash  == Has(run, "-")
    IN  IF dotCount = 3 /\ ~hasColon /\ ~hasDash THEN Token("IPAddress", start, end, "Keyword2")
        ELSE IF hasDash \/ hasColon THEN Token("Timestamp", start, end, "Keyword")
        ELSE Token("Number", start, end, "Number")

\* the span of a word whose uppercase copy is wordUpper
WordTokenOf(wordUpper, start, end) ==
    IF wordUpper \in {"ERROR", "ERR", "ERRO"} THEN Token("LevelError", start, end, "Error")
    ELSE IF wordUpper \in {"WARN", "WARNING", "WRN"}
    THEN Token("LevelWarning", start, end, "Keyword2")
    ELSE IF wordUpper \in {"INFO", "INF", "INFORMATION"}
    THEN Token("LevelInfo", start, end, "Keyword")
    ELSE IF wordUpper \in {"DEBUG", "DBG", "DEBU"} THEN Token("LevelDebug", start, end, "Comment")
    ELSE IF wordUpper \in {"TRACE", "TRC"} THEN Token("LevelDebug", start, end, "Comment")
    ELSE IF wordUpper \in {"FATAL", "FTL", "CRITICAL", "CRIT"}
    THEN Token("LevelError", start, end, "Error")
    ELSE IF wordUpper \in {"GET", "POST", "PUT", "DELETE", "PATCH", "HEAD",
                           "OPTIONS", "CONNECT", "TRACE"}
    THEN Token("HTTPMethod", start, end, "Keyword2")
    ELSE IF wordUpper = "HTTP" THEN Token("HTTPMethod", start, end, "Keyword2")
    ELSE Token("Message", start, end, "Word")

WordToken(txt, start, end) == WordTokenOf(ToUpper(Substr(txt, start, end - start)), start, end)

\* the result of one iteration: the new pos and the spans it adds
Scanned(p, emit) == [pos |-> p, emit |-> emit]

\* pos++ and, for "\r\n" or "\n\r", pos++ again
NewlineEnd(txt, start, ch) ==
    IF start + 1 < Len(txt) /\ (   (ch = "\r" /\ At(txt, start + 1) = "\n")
                                \/ (ch = "\n" /\ At(txt, start + 1) = "\r"))
    THEN start + 2 ELSE start + 1

\* if (pos < len && text[pos] == quote) pos++, where q is where the loop stopped
StringEnd(txt, quote, q) == IF q < Len(txt) /\ At(txt, q) = quote THEN q + 1 ELSE q

\* the branches of one iteration, for the character ch found at start
TokenOf(txt, start, ch) ==
    IF ch \in {"\n", "\r"} THEN Scanned(NewlineEnd(txt, start, ch), <<>>)
    ELSE IF ch \in BracketChars
    THEN Scanned(start + 1, <<Token("Bracket", start, start + 1, "Operator")>>)
    ELSE IF ch \in {"\"", "'"}
    THEN LET e == StringEnd(txt, ch, ScanString(txt, start + 1, ch))
         IN  Scanned(e, <<Token("String", start, e, "String")>>)
    ELSE IF IsDigit(ch)
    THEN LET e == ScanNumber(txt, start)
         IN  Scanned(e, <<NumberToken(txt, start, e)>>)
    ELSE IF IsLetter(ch) \/ ch = "_"
    THEN LET e == ScanWord(txt, start)
         IN  Scanned(e, <<WordToken(txt, start, e)>>)
    ELSE Scanned(start + 1, <<Token("Separator", start, start + 1, "Operator")>>)

\* an iteration from the point where whitespace has been skipped
TokenAt(txt, start) ==
    IF start >= Len(txt) THEN Scanned(start, <<>>)
    ELSE TokenOf(txt, start, At(txt, start))

\* One iteration of while (pos < len): the new pos and the spans it adds
TokenIter(txt, p0) == TokenAt(txt, SkipSpaces(txt, p0))

\* the whole loop, from position p with the spans toks added so far
RECURSIVE AnalyzeLoop(_, _, _)
AnalyzeLoop(txt, p, toks) ==
    IF p < Len(txt)
    THEN LET r == TokenIter(txt, p) IN AnalyzeLoop(txt, r.pos, toks \o r.emit)
    ELSE toks

AnalyzeText(txt) == AnalyzeLoop(txt, 0, <<>>)

-----------------------------------------------------------------------------
(* Inputs *)

\* most lines a document given to a single refresh has
MaxLines == 2

LineTexts ==
    { "",
      "1.2.3.4 - - [10/Oct/2023:13:55:36 +0000] \"GET /index.html HTTP/1.1\" 200 612",
      "h - - [t] \"POST /x H\" 50",
      "nospace",
      "Jan  1 12:00:00 host sshd[42]: Failed password",
      "Jan  1 12:00:00 host cron[7]: ",
      "2024-01-15 10:30:00.123 ERROR [main] Worker - disk full",
      "[Mon Jan 1 12:00:00 2024] [error] [pid 1]: boom",
      "{\"level\":\"info\",\"message\":\"ok\"}",
      "something happened at noon, warn user",
      "FATAL",
      "trace" }

\* documents of exactly n lines, each ended by the line end eol
RECURSIVE Terminated(_, _)
Terminated(n, eol) ==
    IF n = 0 THEN {""}
    ELSE { l \o eol \o d : l \in LineTexts, d \in Terminated(n - 1, eol) }

\* documents of at most MaxLines lines with "\n" or "\r\n" line ends, the
\* last line with or without its line end
Docs ==
    UNION { { d \o l \o e : d \in Terminated(k, eol), l \in LineTexts, e \in {"", eol} }
            : k \in 0 .. (MaxLines - 1), eol \in {"\n", "\r\n"} }

\* the byte strings a session is given one after another
SessionDocs ==
    { "",
      "h - - [t] \"POST /x H\" 50",
      "1.2.3.4 - - [t] \"GET /\" 404 1\nnospace\n",
      "Jan  1 12:00:00 host sshd[42]: Failed password\r\nJan  1 12:00:00 host cron[7]: ",
      "2024-01-15 10:30:00.123 ERROR [main] Worker - disk full\n",
      "something happened at noon, warn user\n\nFATAL\r\ntrace",
      "{\"level\":\"info\",\"message\":\"ok\"}\n",
      "a - - [t] \"GET /a\" 200 1\nb - - [t] \"GET /b\" 301 1\nc - - [t] \"GET /c\" 404 1\n"
        \o "d - - [t] \"GET /d\" 500 1\ne - - [t] \"GET /e\" 199 1\nf \"x\" 0\n",
      "CRITICAL [x] core - all INFO lost\nWARNINGS ahead\n",
      "[Mon Jan 1 12:00:00 2024] [error] [pid 1]: boom\n"
        \o "[t] [crit] 1.2.3.4 \"GET /x\" 500 critical\n" }

\* the pad bytes of a long document
RECURSIVE Pad(_)
Pad(n) ==
    IF n = 0 THEN ""
    ELSE IF n % 2 = 0 THEN LET h == Pad(n \div 2) IN h \o h
    ELSE "x" \o Pad(n - 1)

\* documents given to the detector alone: signatures placed before, across and
\* behind the end of the sample
DetectDocs ==
    { Pad(n) \o t : n \in {0, SAMPLE_SIZE - 10, SAMPLE_SIZE - 7, SAMPLE_SIZE},
                    t \in {"", "GET  - - [", "[error]"} }
    \cup { Pad(SAMPLE_SIZE - 7) \o "[error]GET  - - [",
           Pad(SAMPLE_SIZE - 10) \o "GET  - - [[error]" }

\* inputs of the scan loops stepped one iteration at a time
ParserKinds == {"Apache", "Syslog", "Log4j", "Generic"}

ScanTexts ==
    { "",
      "\n",
      "\r\n\r\n",
      "h - - [t] \"POST /x H\" 50",
      "nospace\n\nJan  1 12:00:00 host cron[7]: \r\n",
      "2024-01-15 10:30:00.123 ERROR [main] Worker - disk full\nFATAL",
      "[2024-01-15] ERROR \"disk full\"",
      "say \"ab\\",
      "'it\\'s",
      "\"open\nnext 'q' \t ",
      "1.2.3.4 GET /x?a=1 12:00:01Z 42\r\n_w-1.z#",
      " \t ",
      "a - - [t] \"GET /a H\" 400 7\nb ] - [u] \"GET /b H\" 500 1\nc \"GET /c\" none\nd [v \"x\" 0\n",
      "Jan  1 12:00:00 host faild[3]: started\nJan  1 12:00:00: host app[1]: error one\n"
        \o "Jan  1 12:00:00 host app[9]: disk WARNing, debug on\n"
        \o "Jan  1 12:00:00 host kernel: Debug trace\nshort: x\n",
      "2024-01-15 10:30:00.123\n2024/01/15 10:30:00,123 ERROR then DEBUG x - y\n"
        \o "2024-01-15 10:30:00 ERROR aaaaaaaaaaaaaaaaaaaa INFO far\n"
        \o "no keyword near the start here, DEBUG\nWARNING [w] - m\n",
      "2024-01-15 10:30:00 INFO [ ] - m\nWARNING [w] - \nERROR\n DEBUG tail only\n"
        \o "TRACE [a] b ]  - c - d\n",
      "critical error\nException in thread, warn\nit Failed: WARN debug\n"
        \o "warning debug trace\nDeBuG trace info\nTrace info\nInformation\nnothing\r\nFaTaL\n",
      "[ts] x\n[open x\n2024-01-15\n2024-01-15 10:30:00\n2024-01-15 10:30:00 x\n"
        \o "2024-01-15 10:30:00.123\n2024-01-15 10:30:00,123 x\n2024/01/15 10:30:00 x\n20240115\n",
      "2024-01-15 10:30:00 WARNINGS ahead\nWARNING - x\n"
        \o "2024-01-15 10:30:00,123 WARN then WARNING - y\nINFO WARNING [z] - w\n",
      "Crit GET trace HTTP put x_1 wrn Notice\n",
      "10.0.0.1:8080 1.2.3 1.2.3.4.5 7/8 2024-01-15T10:30:00Z+1 9x 1-2.3.4.5 6.7.8.9" }

\* the keywords of the classifier's table
LevelKeywords ==
    { "TRACE", "TRC", "DEBUG", "DBG", "DEBU", "INFO", "INF", "INFORMATION", "NOTICE",
      "WARN", "WARNING", "WRN", "ERROR", "ERR", "ERRO", "FATAL", "FTL", "CRIT", "CRITICAL" }

\* s with the letters at the offsets in at replaced by their lowercase form
RECURSIVE LowerAt(_, _, _)
LowerAt(s, at, i) ==
    IF i >= Len(s) THEN ""
    ELSE (IF i \in at /\ Has(UpperChars, At(s, i))
          THEN At(LowerChars, Find(UpperChars, At(s, i), 0))
          ELSE At(s, i)) \o LowerAt(s, at, i + 1)

\* tokens given to the classifier: every keyword in upper case, in lower
\* case, capitalised, with only its first and with only its last letter in
\* lower case; keywords with a character more; other tokens
LevelTokens ==
    UNION { { LowerAt(k, at, 0) : at \in { {}, 0 .. (Len(k) - 1), 1 .. (Len(k) - 1), {0}, {Len(k) - 1} } }
            : k \in LevelKeywords }
    \cup { k \o c : k \in LevelKeywords, c \in {" ", "S"} }
    \cup { " " \o k : k \in LevelKeywords }
    \cup { "", " ", "x", "TRAC", "WAR", "ER", "FATA", "CRITIC", "INFORM", "NOTE", "UNKNOWN",
           "unknown", "level", "0", "[ERROR]", "E R R", "warn!", "Fatal:", "debug\n" }

-----------------------------------------------------------------------------
(* Initial states *)

SessionInit ==
    /\ detectedFormat = "Unknown"      \* LOGFile::LOGFile()
    /\ entries = <<>>
    /\ stats = LogStatistics
    /\ ret = "none"
    /\ readEnd = 0
    /\ parsed = ""

DetectIdle == docA = "" /\ docB = "" /\ fmtA = "none" /\ fmtB = "none"

LoopIdle ==
    /\ loopKind = "none"
    /\ text = ""
    /\ pos = 0
    /\ lineNum = 1
    /\ tokens = <<>>
    /\ iters = 0

ClassifyIdle == token = "" /\ tokenLevel = "none"

\* a new LOGFile; obj has not been assigned yet
Init ==
    /\ data = ""
    /\ valid = FALSE
    /\ SessionInit
    /\ DetectIdle
    /\ LoopIdle
    /\ ClassifyIdle

\* a new LOGFile whose obj refers to one document
InitParse ==
    /\ data \in Docs
    /\ valid = TRUE
    /\ SessionInit
    /\ DetectIdle
    /\ LoopIdle
    /\ ClassifyIdle

-----------------------------------------------------------------------------
(* Actions of a session *)

\* the host assigns obj (PopulateWindow: log->obj = win->GetObject())
SetObject(d) ==
    /\ data' = d
    /\ valid' = TRUE
    /\ UNCHANGED <<detectedFormat, entries, stats, ret, readEnd, parsed>>
    /\ UNCHANGED <<detectVars, loopVars, classifyVars>>

\* the host leaves obj without an object
DropObject ==
    /\ valid
    /\ data' = ""
    /\ valid' = FALSE
    /\ UNCHANGED <<detectedFormat, entries, stats, ret, readEnd, parsed>>
    /\ UNCHANGED <<detectVars, loopVars, classifyVars>>

\* LOGFile::Update()
Update ==
    \E r \in LOGFile_Update(valid, data,
                             Session(ret, detectedFormat, entries, stats, readEnd, parsed)) :
          /\ ret' = r.ret
          /\ detectedFormat' = r.detectedFormat
          /\ entries' = r.entries
          /\ stats' = r.stats
          /\ readEnd' = r.readEnd
          /\ parsed' = r.parsed
          /\ UNCHANGED <<data, valid>>
          /\ UNCHANGED <<detectVars, loopVars, classifyVars>>

Next ==
    \/ \E d \in SessionDocs : SetObject(d)
    \/ DropObject
    \/ Update

\* a session whose byte source changes between refreshes
Spec == Init /\ [][Next]_vars

\* the Update() call PopulateWindow makes on the new LOGFile
FirstUpdate == ret = "none" /\ Update

NextParse == FirstUpdate

\* one document, opened and parsed
SpecParse == InitParse /\ [][NextParse]_vars

-----------------------------------------------------------------------------
(* The detector applied to two documents *)

InitDetect ==
    /\ docA \in DetectDocs
    /\ docB \in DetectDocs
    /\ fmtA = "none"
    /\ fmtB = "none"
    /\ data = ""
    /\ valid = FALSE
    /\ SessionInit
    /\ LoopIdle
    /\ ClassifyIdle

DetectA ==
    /\ fmtA = "none"
    /\ fmtA' = DetectLogFormat(docA)
    /\ UNCHANGED <<docA, docB, fmtB, sessionVars, loopVars, classifyVars>>

DetectB ==
    /\ fmtA # "none"
    /\ fmtB = "none"
    /\ fmtB' = DetectLogFormat(docB)
    /\ UNCHANGED <<docA, docB, fmtA, sessionVars, loopVars, classifyVars>>

NextDetect == DetectA \/ DetectB

SpecDetect == InitDetect /\ [][NextDetect]_vars

-----------------------------------------------------------------------------
(* The scan loops, one iteration per step *)

InitScan ==
    /\ loopKind \in ParserKinds \cup {"Tokenizer"}
    /\ text \in ScanTexts
    /\ pos = 0
    /\ lineNum = 1
    /\ tokens = <<>>
    /\ iters = 0
    /\ data = ""
    /\ valid = FALSE
    /\ SessionInit
    /\ DetectIdle
    /\ ClassifyIdle

\* one iteration of while (pos < content.size()) in the parser loopKind
ParseStep ==
    /\ loopKind \in ParserKinds
    /\ pos < Len(text)
    /\ \E st \in { ParseIter(loopKind, text, text \o behind,
                              [pos |-> pos, lineNum |-> lineNum,
                               entries |-> entries, readEnd |-> readEnd])
                    : behind \in Behind } :
         /\ pos' = st.pos
         /\ lineNum' = st.lineNum
         /\ entries' = st.entries
         /\ readEnd' = st.readEnd
    /\ iters' = iters + 1
    /\ UNCHANGED <<loopKind, text, tokens, data, valid, detectedFormat, stats, ret, parsed>>
    /\ UNCHANGED <<detectVars, classifyVars>>

\* one iteration of while (pos < len) in AnalyzeText
TokenStep ==
    /\ loopKind = "Tokenizer"
    /\ pos < Len(text)
    /\ \E r \in { TokenIter(text, pos) } :
         /\ pos' = r.pos
         /\ tokens' = tokens \o r.emit
    /\ iters' = iters + 1
    /\ UNCHANGED <<loopKind, text, lineNum, sessionVars, detectVars, classifyVars>>

NextScan == ParseStep \/ TokenStep

SpecScan == InitScan /\ [][NextScan]_vars

-----------------------------------------------------------------------------
(* The level classifier applied to one token *)

InitLevel ==
    /\ token \in LevelTokens
    /\ tokenLevel = "none"
    /\ data = ""
    /\ valid = FALSE
    /\ SessionInit
    /\ DetectIdle
    /\ LoopIdle

\* a call of ParseLogLevel(token)
Classify ==
    /\ tokenLevel = "none"
    /\ tokenLevel' = ParseLogLevel(token)
    /\ UNCHANGED <<token, sessionVars, detectVars, loopVars>>

NextLevel == Classify

SpecLevel == InitLevel /\ [][NextLevel]_vars

-----------------------------------------------------------------------------
(* Properties *)

Refreshed == ret = "true"

Range(es) == { es[i] : i \in 1 .. Len(es) }

\* C1: after a successful refresh every record has a non-empty message,
\* whichever parser produced it.
C1_MessageNeverEmpty ==
    Refreshed => \A e \in Range(entries) : e.message # ""

\* C2: after a successful refresh the seven severity counters add up to
\* totalLines, which is the number of records.
C2_BucketsSumToTotal ==
    Refreshed =>
      /\ stats.traceCount + stats.debugCount + stats.infoCount + stats.warningCount
           + stats.errorCount + stats.fatalCount + stats.unknownCount = stats.totalLines
      /\ stats.totalLines = Len(entries)

\* a refreshed document with records in the fatal, the unknown and another bucket
C2_Witness ==
    /\ Refreshed
    /\ stats.fatalCount > 0
    /\ stats.unknownCount > 0
    /\ stats.totalLines > 1

\* a step taken while obj refers to a source of zero bytes and stays so: the
\* only such step that changes anything is Update()
OnEmptySource == valid /\ Len(data) = 0 /\ UNCHANGED <<data, valid>>

C4_RefreshIsIdempotent ==
    [][(valid /\ Refreshed /\ parsed = data /\ ret' = "true" /\ UNCHANGED <<data, valid>>)
          => UNCHANGED <<detectedFormat, entries, stats>>]_vars

\* C5: a refresh reads no byte at an offset at or beyond min(totalSize, parse cap).
C5_NoReadBeyondContent ==
    readEnd <= Min(Len(data), MAX_PARSE_SIZE)

\* C6: every iteration of a parser's line loop and of the tokenizer's scan
\* loop moves the scan position forward, so a loop over a text of n
\* characters ends after at most n iterations.
C6_LoopsTerminate ==
    /\ [][pos' > pos /\ pos' <= Len(text) + 1]_<<pos, iters>>
    /\ [](iters <= Len(text))

\* the tokenizer has run to the end of a text that ends inside a quoted
\* string, right after a backslash
C6_Witness ==
    /\ loopKind = "Tokenizer"
    /\ text = "say \"ab\\"
    /\ pos = Len(text)
    /\ iters > 0
    /\ tokens # <<>>
    /\ tokens[Len(tokens)] = Token("String", 4, Len(text), "String")

\* the detection rules in their order of priority
RuleOrder == <<"Apache", "ApacheError", "Syslog", "Log4j", "JSON">>

RuleHolds(fmt, sample) ==
    CASE fmt = "Apache"      -> IsApacheSample(sample)
      [] fmt = "ApacheError" -> IsApacheErrorSample(sample)
      [] fmt = "Syslog"      -> IsSyslogSample(sample)
      [] fmt = "Log4j"       -> IsLog4jSample(sample)
      [] fmt = "JSON"        -> IsJSONSample(sample)

\* C7: the detected format is that of the first rule, in the order Apache,
\* ApacheError, Syslog, Log4j, JSON, that holds on the sample, and Custom when
\* none holds.
C7_FirstRuleWins ==
    Refreshed =>
      LET sample   == Sample(parsed)
          matching == { k \in 1 .. Len(RuleOrder) : RuleHolds(RuleOrder[k], sample) }
      IN  /\ matching = {} => detectedFormat = "Custom"
          /\ \A k \in matching :
               (\A j \in matching : k <= j) => detectedFormat = RuleOrder[k]

\* a document whose sample matches the Apache and the Log4j rule, detected as Apache
C7_Witness ==
    /\ Refreshed
    /\ IsApacheSample(Sample(parsed))
    /\ IsLog4jSample(Sample(parsed))
    /\ detectedFormat = "Apache"

\* C8: after a successful refresh the detected format is one of Apache,
\* ApacheError, Syslog, Log4j, JSON and Custom; never Unknown, WindowsEvent or IIS.
C8_DetectedFormats ==
    Refreshed => detectedFormat \in {"Apache", "ApacheError", "Syslog", "Log4j", "JSON", "Custom"}

\* a document on which no rule holds has been refreshed
C8_Witness ==
    /\ Refreshed
    /\ \A k \in 1 .. Len(RuleOrder) : ~RuleHolds(RuleOrder[k], Substr(parsed, 0, SAMPLE_SIZE))
    /\ detectedFormat = "Custom"

\* C9: two documents that agree on their first SAMPLE_SIZE bytes are given
\* the same format.
C9_DetectionDependsOnSampleOnly ==
    (fmtA # "none" /\ fmtB # "none"
       /\ Substr(docA, 0, SAMPLE_SIZE) = Substr(docB, 0, SAMPLE_SIZE))
      => fmtA = fmtB

\* two different documents with the same sample, one of them with an Apache
\* signature wholly behind the sample, have both been classified
C9_Witness ==
    /\ fmtA # "none"
    /\ fmtB # "none"
    /\ docA # docB
    /\ Substr(docA, 0, SAMPLE_SIZE) = Substr(docB, 0, SAMPLE_SIZE)
    /\ IsApacheSample(SubstrFrom(docB, SAMPLE_SIZE))
    /\ fmtB # "Apache"

\* C10: every record's range starts at or before its end, ends at the '\n'
\* that terminates its line (or at the content size) with no '\n' inside, and
\* ends strictly before the next record's range starts.
C10_RecordRanges ==
    Refreshed =>
      \A i \in 1 .. Len(entries) :
        LET e == entries[i]
        IN  /\ e.lineStart <= e.lineEnd
            /\ e.lineEnd <= Len(parsed)
            /\ e.lineEnd = Len(parsed) \/ At(parsed, e.lineEnd) = "\n"
            /\ ~Has(Substr(parsed, e.lineStart, e.lineEnd - e.lineStart), "\n")
            /\ i < Len(entries) => e.lineEnd < entries[i + 1].lineStart

\* two records, the first from a line ended by "\r\n": its range counts the '\r'
C10_Witness ==
    /\ Refreshed
    /\ Len(entries) = 2
    /\ At(parsed, entries[1].lineEnd - 1) = "\r"
    /\ At(parsed, entries[1].lineEnd) = "\n"
    /\ entries[1].lineEnd - entries[1].lineStart = Len(entries[1].message) + 1
    /\ entries[2].lineStart = entries[1].lineEnd + 1

\* the offsets at which the lines of content start: 0 and every offset that
\* follows a '\n', as far as they lie inside content
LineStartsOf(content) ==
    { p \in 0 .. (Len(content) - 1) : p = 0 \/ At(content, p - 1) = "\n" }

\* the characters of the line that starts at p, up to its '\n' or the end
LineBody(content, p) ==
    Substr(content, p,
           MinOf({ j \in p .. Len(content) : j = Len(content) \/ At(content, j) = "\n" }) - p)

\* the starts of the lines that are not empty once one trailing '\r' is removed
NonBlankLineStarts(content) ==
    { p \in LineStartsOf(content) : LineBody(content, p) \notin {"", "\r"} }

\* C11: a parser stores exactly one record per line that is non-empty after
\* one trailing '\r' is removed, and a record's lineNumber is 1 + the number of
\* '\n' before its lineStart: 1-based, strictly increasing, blank lines counted.
C11_OneRecordPerNonBlankLine ==
    Refreshed =>
      /\ Len(entries) = Cardinality(NonBlankLineStarts(parsed))
      /\ { e.lineStart : e \in Range(entries) } = NonBlankLineStarts(parsed)
      /\ \A i \in 1 .. Len(entries) :
           /\ entries[i].lineNumber
                = 1 + Cardinality({ j \in 0 .. (entries[i].lineStart - 1) : At(parsed, j) = "\n" })
           /\ entries[i].lineNumber >= 1
           /\ i < Len(entries) => entries[i].lineNumber < entries[i + 1].lineNumber

\* a document that begins with a line holding only '\r': its one record is
\* that of line 2
C11_Witness ==
    /\ Refreshed
    /\ Substr(parsed, 0, 2) = "\r\n"
    /\ Len(entries) = 1
    /\ entries[1].lineNumber = 2
    /\ entries[1].lineStart = 2

\* the offsets of text that lie inside one of the spans toks
Covered(toks) ==
    UNION { toks[i].start .. (toks[i].end - 1) : i \in 1 .. Len(toks) }

\* C12: the spans the tokenizer emits are non-empty and inside the text, come
\* in increasing offset order without overlap, and every character they leave
\* uncovered is a space, a tab, '\n' or '\r'.  Stated of the part of the text
\* the loop has scanned, which is the whole text when the loop has ended.
C12_SpansPartitionText ==
    loopKind = "Tokenizer" =>
      /\ pos <= Len(text)
      /\ \A i \in 1 .. Len(tokens) :
           /\ 0 <= tokens[i].start
           /\ tokens[i].start < tokens[i].end
           /\ tokens[i].end <= pos
           /\ i < Len(tokens) => tokens[i].end <= tokens[i + 1].start
      /\ \A j \in (0 .. (pos - 1)) \ Covered(tokens) : At(text, j) \in {" ", "\t", "\n", "\r"}

\* the loop has ended on a text with two lines, a quoted string left open at
\* the end of the first line, and blanks at the end: three spans
C12_Witness ==
    /\ loopKind = "Tokenizer"
    /\ text = "\"open\nnext 'q' \t "
    /\ pos = Len(text)
    /\ Len(tokens) = 3
    /\ tokens[1] = Token("String", 0, 5, "String")
    /\ tokens[3] = Token("String", 11, 14, "String")
    /\ Covered(tokens) # 0 .. (Len(text) - 1)

\* the loop of parser kind runs on a document that Update() gives to that parser
ScanOf(kind) == loopKind = kind /\ DetectLogFormat(text) = kind

\* the loop of ScanOf(kind) has reached the end of the document
ScanDone(kind) == ScanOf(kind) /\ pos >= Len(text)

\* the line a record was made of: the text of its range less one trailing '\r'
RecordLine(e) == DropCR(LineBody(text, e.lineStart))

\* line has a space, and a digit somewhere behind its second '"'
StatusExtracted(line) ==
    /\ Has(line, " ")
    /\ \E d \in 0 .. (Len(line) - 1) :
         /\ IsDigit(At(line, d))
         /\ Cardinality({ q \in 0 .. (d - 1) : At(line, q) = "\"" }) >= 2

\* C13 as stated: every record of the Apache parser has the severity that
\* follows from its httpStatus (Error from 500, Warning from 400 to 499, Info
\* otherwise), also a record whose status could not be extracted.
C13_LevelFromStatus ==
    ScanOf("Apache") =>
      \A e \in Range(entries) :
        e.level = CASE e.httpStatus >= 500 -> "Error"
                    [] e.httpStatus \in 400 .. 499 -> "Warning"
                    [] OTHER -> "Info"

\* C13 amended: a record of a line in which a status was extracted has the
\* severity that follows from its httpStatus; a record of a line without an
\* extracted status has httpStatus 0 and the severity Unknown.
C13_LevelFromExtractedStatus ==
    ScanOf("Apache") =>
      \A e \in Range(entries) :
        IF StatusExtracted(RecordLine(e))
        THEN e.level = CASE e.httpStatus >= 500 -> "Error"
                         [] e.httpStatus \in 400 .. 499 -> "Warning"
                         [] OTHER -> "Info"
        ELSE e.httpStatus = 0 /\ e.level = "Unknown"

\* the Apache parser has made four records: status 400, status 500, no
\* status, and an extracted status of 0
C13_Witness ==
    /\ ScanDone("Apache")
    /\ Len(entries) = 4
    /\ [i \in 1 .. 4 |-> entries[i].httpStatus] = <<400, 500, 0, 0>>
    /\ [i \in 1 .. 4 |-> entries[i].level] = <<"Warning", "Error", "Unknown", "Info">>
    /\ ~StatusExtracted(RecordLine(entries[3]))
    /\ StatusExtracted(RecordLine(entries[4]))

\* the keywords of each level, as the table of the classifier lists them
KeywordsOf ==
    [ Trace   |-> {"TRACE", "TRC"},
      Debug   |-> {"DEBUG", "DBG", "DEBU"},
      Info    |-> {"INFO", "INF", "INFORMATION", "NOTICE"},
      Warning |-> {"WARN", "WARNING", "WRN"},
      Error   |-> {"ERROR", "ERR", "ERRO"},
      Fatal   |-> {"FATAL", "FTL", "CRIT", "CRITICAL"} ]

\* a and b are the same text when the case of letters is ignored
SameIgnoringCase(a, b) ==
    /\ Len(a) = Len(b)
    /\ \A i \in 0 .. (Len(a) - 1) :
         \/ At(a, i) = At(b, i)
         \/ \E k \in 0 .. 25 : {At(a, i), At(b, i)} = {At(LowerChars, k), At(UpperChars, k)}

\* the levels whose table holds a keyword equal to the token, case ignored
LevelsNamedBy(tok) ==
    { l \in DOMAIN KeywordsOf : \E k \in KeywordsOf[l] : SameIgnoringCase(tok, k) }

\* C14: the classifier returns a level for every token: the level of the
\* keyword the whole token equals when case is ignored, and Unknown for every
\* other token, the empty one included.
C14_ClassifierTable ==
    tokenLevel # "none" =>
      /\ tokenLevel \in {"Trace", "Debug", "Info", "Warning", "Error", "Fatal", "Unknown"}
      /\ LevelsNamedBy(token) = {} => tokenLevel = "Unknown"
      /\ \A l \in LevelsNamedBy(token) : tokenLevel = l

\* the classifier has returned Info for a keyword given in mixed case
C14_Witness ==
    /\ token = "Notice"
    /\ tokenLevel = "Info"

\* the indices of the records that have a timestamp
Stamped(es) == { i \in 1 .. Len(es) : es[i].timestamp # "" }

\* C15: after a successful refresh firstTimestamp is the timestamp of the
\* first record in document order that has one and lastTimestamp that of the
\* last; both are empty exactly when no record has a timestamp, and they are
\* equal when exactly one record has one.
C15_FirstAndLastTimestamp ==
    Refreshed =>
      /\ \A i \in Stamped(entries) :
           /\ (\A j \in Stamped(entries) : i <= j) => stats.firstTimestamp = entries[i].timestamp
           /\ (\A j \in Stamped(entries) : j <= i) => stats.lastTimestamp = entries[i].timestamp
      /\ (stats.firstTimestamp = "" /\ stats.lastTimestamp = "") <=> Stamped(entries) = {}
      /\ stats.firstTimestamp = "" <=> stats.lastTimestamp = ""
      /\ Cardinality(Stamped(entries)) = 1 => stats.firstTimestamp = stats.lastTimestamp

\* a refreshed document of two records with different timestamps
C15_Witness ==
    /\ Refreshed
    /\ Len(entries) = 2
    /\ Stamped(entries) = {1, 2}
    /\ entries[1].timestamp # entries[2].timestamp
    /\ stats.firstTimestamp = entries[1].timestamp
    /\ stats.lastTimestamp = entries[2].timestamp

\* C16: the timestamp of a record of the Apache parser is the text strictly
\* between the first '[' of its line and the first ']', when the '[' comes
\* first; it is empty when the first ']' comes before the first '[' or when
\* either bracket is missing.
C16_TimestampBetweenBrackets ==
    ScanOf("Apache") =>
      \A e \in Range(entries) :
        LET open  == Find(RecordLine(e), "[", 0)
            close == Find(RecordLine(e), "]", 0)
        IN  e.timestamp = IF open # NPOS /\ close # NPOS /\ open < close
                          THEN Substr(RecordLine(e), open + 1, close - open - 1)
                          ELSE ""

\* the offsets greater than 15 at which line holds ": "
LateColons(line) ==
    { i \in 16 .. (Len(line) - 2) : At(line, i) = ":" /\ At(line, i + 1) = " " }

\* the part of s after its first space, empty when s has no space
AfterFirstSpace(s) ==
    IF \E i \in 0 .. (Len(s) - 1) : At(s, i) = " "
    THEN SubstrFrom(s, 1 + MinOf({ i \in 0 .. (Len(s) - 1) : At(s, i) = " " }))
    ELSE ""

\* C17: a syslog record of a line that holds ": " at an offset greater than 15
\* has the text after that ": " as message and, as source, the part after the
\* first space of the text between offset 16 and that colon, also when the
\* line holds another ": " at an offset of 15 or less; any other line gives
\* its whole text as message and an empty source.
C17_SplitAtLateColon ==
    ScanOf("Syslog") =>
      \A e \in Range(entries) :
        IF LateColons(RecordLine(e)) # {}
        THEN /\ e.message = SubstrFrom(RecordLine(e), MinOf(LateColons(RecordLine(e))) + 2)
             /\ e.source = AfterFirstSpace(Substr(RecordLine(e), 16,
                                                  MinOf(LateColons(RecordLine(e))) - 16))
        ELSE e.message = RecordLine(e) /\ e.source = ""

\* s holds the keyword k, the case of letters ignored
HoldsIgnoringCase(s, k) ==
    \E i \in 0 .. (Len(s) - Len(k)) : SameIgnoringCase(Substr(s, i, Len(k)), k)

\* C18: the level of a syslog record follows from its message alone, case
\* ignored: Error when it holds ERROR or FAIL, else Warning when it holds
\* WARN, else Debug when it holds DEBUG, else Info.
C18_SyslogLevelFromMessage ==
    ScanOf("Syslog") =>
      \A e \in Range(entries) :
        /\ e.level \in {"Error", "Warning", "Debug", "Info"}
        /\ e.level = "Error"
             <=> (HoldsIgnoringCase(e.message, "ERROR") \/ HoldsIgnoringCase(e.message, "FAIL"))
        /\ e.level = "Warning"
             <=> (/\ ~HoldsIgnoringCase(e.message, "ERROR")
                  /\ ~HoldsIgnoringCase(e.message, "FAIL")
                  /\ HoldsIgnoringCase(e.message, "WARN"))
        /\ e.level = "Debug"
             <=> (/\ ~HoldsIgnoringCase(e.message, "ERROR")
                  /\ ~HoldsIgnoringCase(e.message, "FAIL")
                  /\ ~HoldsIgnoringCase(e.message, "WARN")
                  /\ HoldsIgnoringCase(e.message, "DEBUG"))

\* the syslog parser has made a record of level Info from a line with "fail"
\* in its process name, and a record of level Warning from a message that
\* holds "WARN" in mixed case and "debug"
C18_Witness ==
    /\ ScanDone("Syslog")
    /\ Len(entries) = 5
    /\ HoldsIgnoringCase(RecordLine(entries[1]), "FAIL")
    /\ entries[1].message = "started"
    /\ entries[1].level = "Info"
    /\ entries[3].message = "disk WARNing, debug on"
    /\ entries[3].level = "Warning"
    /\ entries[4].level = "Debug"

\* line has 19 characters or more and '-' or '/' at index 4 and at index 7
HasDateSeparators(line) ==
    Len(line) >= 19 /\ At(line, 4) \in {"-", "/"} /\ At(line, 7) \in {"-", "/"}

\* C19: the timestamp of a Log4j record of a line of at least 19 characters
\* with '-' or '/' at index 4 and 7 is the first 19 characters of the line, or
\* the first 23 when index 19 holds '.' or ',' and the line has at least 23
\* characters; any other line gives an empty timestamp.
C19_TimestampLength ==
    ScanOf("Log4j") =>
      \A e \in Range(entries) :
        e.timestamp =
          IF ~HasDateSeparators(RecordLine(e)) THEN ""
          ELSE IF At(RecordLine(e), 19) \in {".", ","} /\ Len(RecordLine(e)) >= 23
          THEN Substr(RecordLine(e), 0, 23)
          ELSE Substr(RecordLine(e), 0, 19)

\* the level keywords in the order of the list, each with its level
KeywordLevels ==
    << <<"TRACE", "Trace">>, <<"DEBUG", "Debug">>, <<"INFO", "Info">>, <<"WARN", "Warning">>,
       <<"WARNING", "Warning">>, <<"ERROR", "Error">>, <<"FATAL", "Fatal">>,
       <<"CRITICAL", "Fatal">> >>

\* the text of a record's line after its timestamp
AfterTimestamp(e) == SubstrFrom(RecordLine(e), Len(e.timestamp))

\* the offsets at which s holds the keyword k
Occurrences(s, k) == { i \in 0 .. (Len(s) - Len(k)) : Substr(s, i, Len(k)) = k }

\* the places in the list of the keywords whose first occurrence in s starts
\* at an index below 20
Qualifying(s) ==
    { n \in 1 .. Len(KeywordLevels) :
        /\ Occurrences(s, KeywordLevels[n][1]) # {}
        /\ MinOf(Occurrences(s, KeywordLevels[n][1])) < 20 }

\* C20: the level of a Log4j record is that of the first keyword of the list
\* whose first occurrence in the text after the timestamp starts below index
\* 20, whatever the order of the keywords in the text; when no keyword
\* qualifies the level is Unknown and the message is the whole line.
C20_FirstListedKeywordWins ==
    ScanOf("Log4j") =>
      \A e \in Range(entries) :
        IF Qualifying(AfterTimestamp(e)) = {}
        THEN e.level = "Unknown" /\ e.message = RecordLine(e)
        ELSE e.level = KeywordLevels[MinOf(Qualifying(AfterTimestamp(e)))][2]

\* the Log4j parser has made a record of level Debug from a line with ERROR
\* before DEBUG, a record of level Error from a line with INFO beyond index
\* 20, and a record of level Unknown from a line whose only keyword lies there
C20_Witness ==
    /\ ScanDone("Log4j")
    /\ Len(entries) = 5
    /\ entries[2].level = "Debug"
    /\ Occurrences(AfterTimestamp(entries[2]), "ERROR") # {}
    /\ MinOf(Occurrences(AfterTimestamp(entries[2]), "ERROR"))
         < MinOf(Occurrences(AfterTimestamp(entries[2]), "DEBUG"))
    /\ entries[3].level = "Error"
    /\ Occurrences(AfterTimestamp(entries[3]), "INFO") # {}
    /\ MinOf(Occurrences(AfterTimestamp(entries[3]), "INFO")) >= 20
    /\ Occurrences(AfterTimestamp(entries[4]), "DEBUG") # {}
    /\ entries[4].level = "Unknown"
    /\ entries[4].message = RecordLine(entries[4])
    /\ entries[5].level = "Warning"

\* s without its leading characters that are in chars
RECURSIVE DropLeading(_, _)
DropLeading(s, chars) ==
    IF s # "" /\ Head(s) \in chars THEN DropLeading(Tail(s), chars) ELSE s

\* s without its trailing characters that are in chars
RECURSIVE DropTrailing(_, _)
DropTrailing(s, chars) ==
    IF s # "" /\ At(s, Len(s) - 1) \in chars
    THEN DropTrailing(Substr(s, 0, Len(s) - 1), chars) ELSE s

\* the keyword a Log4j record's level was taken from, and the offset behind
\* its first occurrence in the text after the timestamp
AcceptedKeyword(e) == KeywordLevels[MinOf(Qualifying(AfterTimestamp(e)))][1]
KeywordEnd(e) ==
    MinOf(Occurrences(AfterTimestamp(e), AcceptedKeyword(e))) + Len(AcceptedKeyword(e))

\* the offsets behind the keyword at which the text holds " - "
Delimiters(e) == { i \in Occurrences(AfterTimestamp(e), " - ") : i >= KeywordEnd(e) }

\* the source C21 states for a record with an accepted keyword
StatedSource(e) ==
    IF Delimiters(e) = {} THEN ""
    ELSE DropTrailing(DropLeading(Substr(AfterTimestamp(e), KeywordEnd(e),
                                         MinOf(Delimiters(e)) - KeywordEnd(e)),
                                  {" ", "["}),
                      {" ", "]"})

\* the message C21 states for a record with an accepted keyword
StatedMessage(e) ==
    IF Delimiters(e) = {} THEN SubstrFrom(AfterTimestamp(e), KeywordEnd(e))
    ELSE SubstrFrom(AfterTimestamp(e), MinOf(Delimiters(e)) + 3)

\* C21 as stated: a Log4j record with an accepted keyword has, when " - "
\* follows the keyword, the trimmed text between keyword and delimiter as
\* source and the text after the delimiter as message, and otherwise an empty
\* source and everything after the keyword as message.
C21_SourceAndMessage ==
    ScanOf("Log4j") =>
      \A e \in Range(entries) :
        Qualifying(AfterTimestamp(e)) # {} =>
          e.source = StatedSource(e) /\ e.message = StatedMessage(e)

\* C21 amended: as stated, except that a record whose message would be empty
\* has its whole line as message.
C21_SourceAndMessageOrLine ==
    ScanOf("Log4j") =>
      \A e \in Range(entries) :
        Qualifying(AfterTimestamp(e)) # {} =>
          /\ e.source = StatedSource(e)
          /\ e.message = IF StatedMessage(e) = "" THEN RecordLine(e) ELSE StatedMessage(e)

\* the Log4j parser has made records with a source of which nothing remains,
\* with nothing behind the delimiter, with nothing behind the keyword, without
\* a delimiter, and with a trimmed source in front of the first of two delimiters
C21_Witness ==
    /\ ScanDone("Log4j")
    /\ Len(entries) = 5
    /\ entries[1].source = "" /\ entries[1].message = "m"
    /\ entries[2].source = "ING [w" /\ entries[2].message = "WARNING [w] - "
    /\ entries[3].source = "" /\ entries[3].message = "ERROR"
    /\ entries[4].source = "" /\ entries[4].message = " tail only"
    /\ entries[5].source = "a] b" /\ entries[5].message = "c - d"

\* the loop of the generic parser runs on a document that Update() gives to it
ScanGeneric ==
    loopKind = "Generic" /\ DetectLogFormat(text) \notin {"Apache", "Syslog", "Log4j"}

\* the level C22 states for a line
StatedGenericLevel(line) ==
    IF HoldsIgnoringCase(line, "FATAL") \/ HoldsIgnoringCase(line, "CRITICAL") THEN "Fatal"
    ELSE IF \/ HoldsIgnoringCase(line, "ERROR")
            \/ HoldsIgnoringCase(line, "EXCEPTION")
            \/ HoldsIgnoringCase(line, "FAIL") THEN "Error"
    ELSE IF HoldsIgnoringCase(line, "WARN") THEN "Warning"
    ELSE IF HoldsIgnoringCase(line, "DEBUG") THEN "Debug"
    ELSE IF HoldsIgnoringCase(line, "TRACE") THEN "Trace"
    ELSE IF HoldsIgnoringCase(line, "INFO") THEN "Info"
    ELSE "Unknown"

\* C22: a record of the generic parser has its whole line, less a trailing
\* '\r', as message, and the level of the first rule that holds on the line,
\* case ignored: FATAL or CRITICAL, then ERROR, EXCEPTION or FAIL, then WARN,
\* DEBUG, TRACE, INFO, and Unknown when none holds.
C22_GenericMessageAndLevel ==
    ScanGeneric =>
      \A e \in Range(entries) :
        /\ e.message = RecordLine(e)
        /\ e.level = StatedGenericLevel(RecordLine(e))

\* the generic parser has made records of all seven levels, the first from a
\* line that holds a Fatal and an Error keyword, one from a line ended by "\r\n"
C22_Witness ==
    /\ ScanGeneric
    /\ pos >= Len(text)
    /\ Len(entries) = 9
    /\ entries[1].message = "critical error"
    /\ entries[8].message = "nothing"
    /\ [i \in 1 .. 9 |-> entries[i].level]
         = <<"Fatal", "Error", "Error", "Warning", "Debug", "Trace", "Info", "Unknown", "Fatal">>

\* the timestamp C23 states for a line
StatedGenericTimestamp(line) ==
    IF At(line, 0) = "["
    THEN IF Occurrences(line, "]") = {} THEN ""
         ELSE Substr(line, 1, MinOf(Occurrences(line, "]")) - 1)
    ELSE IF Len(line) >= 10 /\ At(line, 4) = "-" /\ At(line, 7) = "-"
    THEN IF Len(line) >= 19 /\ At(line, 10) = " " /\ At(line, 13) = ":"
         THEN IF Len(line) >= 23 /\ At(line, 19) \in {".", ","}
              THEN Substr(line, 0, 23)
              ELSE Substr(line, 0, 19)
         ELSE Substr(line, 0, 10)
    ELSE ""

\* C23: a record of the generic parser of a line that starts with '[' has
\* the text up to the first ']' as timestamp (empty without ']'); of another
\* line with '-' at index 4 and 7 the first 10 characters, the first 19 when
\* ' ' is at index 10 and ':' at index 13, the first 23 when also '.' or ','
\* is at index 19, a line that ends with the timestamp included; else empty.
C23_GenericTimestamp ==
    ScanGeneric =>
      \A e \in Range(entries) : e.timestamp = StatedGenericTimestamp(RecordLine(e))

\* the number of records whose httpStatus is in lo .. hi
StatusCount(es, lo, hi) ==
    Cardinality({ i \in 1 .. Len(es) : es[i].httpStatus >= lo /\ es[i].httpStatus <= hi })

\* the number of records whose httpStatus is lo or more
StatusFrom(es, lo) == Cardinality({ i \in 1 .. Len(es) : es[i].httpStatus >= lo })

\* C24: after a successful refresh each HTTP-class counter is the number of
\* records whose httpStatus lies in its class (200..299, 300..399, 400..499,
\* 500 and more); records below 200 are in no class, so the four counters
\* add up to the number of records with httpStatus >= 200, at most totalLines.
C24_StatusClassCounters ==
    Refreshed =>
      /\ stats.http2xxCount = StatusCount(entries, 200, 299)
      /\ stats.http3xxCount = StatusCount(entries, 300, 399)
      /\ stats.http4xxCount = StatusCount(entries, 400, 499)
      /\ stats.http5xxCount = StatusFrom(entries, 500)
      /\ stats.http2xxCount + stats.http3xxCount + stats.http4xxCount + stats.http5xxCount
           = StatusFrom(entries, 200)
      /\ StatusFrom(entries, 200) <= stats.totalLines

\* a refreshed document with one record in each class and two below 200
C24_Witness ==
    /\ Refreshed
    /\ Len(entries) = 6
    /\ [i \in 1 .. 6 |-> entries[i].httpStatus] = <<200, 301, 404, 500, 199, 0>>
    /\ stats.http2xxCount = 1
    /\ stats.http3xxCount = 1
    /\ stats.http4xxCount = 1
    /\ stats.http5xxCount = 1
    /\ stats.totalLines = 6

\* the span types the word branch of the tokenizer gives
WordTypes == {"LevelError", "LevelWarning", "LevelInfo", "LevelDebug", "HTTPMethod", "Message"}

\* the text a span covers
SpanText(t) == Substr(text, t.start, t.end - t.start)

\* C25: the tokenizer gives a word a level type exactly when the level
\* classifier maps the word to a level other than Unknown (NOTICE included);
\* of the other words the HTTP method names and HTTP get HTTPMethod and all
\* the rest Message, so TRACE is a level span.
C25_WordTypesFollowClassifier ==
    loopKind = "Tokenizer" =>
      \A t \in Range(tokens) :
        t.type \in WordTypes =>
          IF ParseLogLevel(SpanText(t)) # "Unknown"
          THEN t.type \in {"LevelError", "LevelWarning", "LevelInfo", "LevelDebug"}
          ELSE IF ToUpper(SpanText(t)) \in {"GET", "POST", "PUT", "DELETE", "PATCH", "HEAD",
                                            "OPTIONS", "CONNECT", "HTTP"}
          THEN t.type = "HTTPMethod"
          ELSE t.type = "Message"

\* the characters a digit-opened run consumes
IsRunChar(c) == IsDigit(c) \/ c \in {".", ":", "-", "/", "T", "Z", "+"}

\* the type stated for a digit-opened run
StatedRunType(run) ==
    IF CountChar(run, ".") = 3 /\ ~Has(run, ":") /\ ~Has(run, "-") THEN "IPAddress"
    ELSE IF Has(run, "-") \/ Has(run, ":") THEN "Timestamp"
    ELSE "Number"

\* C26: a span that opens with a digit covers the whole run of digits and
\* . : - / T Z + (it stops only at the end of the text or before another
\* character) and is typed IPAddress when the run has exactly three '.' and
\* neither ':' nor '-', otherwise Timestamp when it has a '-' or a ':',
\* otherwise Number.
C26_DigitRunClassified ==
    loopKind = "Tokenizer" =>
      \A t \in Range(tokens) :
        IsDigit(At(text, t.start)) =>
          /\ \A i \in t.start .. (t.end - 1) : IsRunChar(At(text, i))
          /\ t.end = Len(text) \/ ~IsRunChar(At(text, t.end))
          /\ t.type = StatedRunType(SpanText(t))

\* the tokenizer finished a text with an address, an address followed by a
\* port (three dots and a colon), a run of four dots and a run ending the text
C26_Witness ==
    /\ loopKind = "Tokenizer" /\ pos = Len(text)
    /\ \E t \in Range(tokens) : SpanText(t) = "10.0.0.1:8080" /\ t.type = "Timestamp"
    /\ \E t \in Range(tokens) : SpanText(t) = "1.2.3.4.5" /\ t.type = "Number"
    /\ \E t \in Range(tokens) : SpanText(t) = "6.7.8.9" /\ t.type = "IPAddress" /\ t.end = Len(text)

\* a step that leaves obj alone: Update() is the only such step that changes
\* anything
RefreshStep == UNCHANGED <<data, valid>>

\* C27: a refresh reports failure exactly when obj refers to no object or to
\* a source of zero bytes, and such a refresh leaves the detected format, the
\* records and the statistics as they were; as long as no refresh has
\* succeeded they are Unknown, empty and all-zero.
C27_FailedRefreshChangesNothing ==
    /\ [](parsed = "" => (detectedFormat = "Unknown" /\ entries = <<>> /\ stats = LogStatistics))
    /\ [][RefreshStep =>
            /\ (~valid \/ Len(data) = 0) => ret' = "false"
            /\ ret' = "false" => UNCHANGED <<detectedFormat, entries, stats>>]_vars

\* a refresh has failed for want of an object, after an earlier one had
\* produced records
C27_Witness ==
    /\ ~valid
    /\ ret = "false"
    /\ detectedFormat # "Unknown"
    /\ Len(entries) > 1
    /\ stats.totalLines = Len(entries)

\* C28: no record has the level Critical, every record's level is one of the
\* other seven, and the fatal counter is the number of records of level Fatal.
C28_NoCriticalRecord ==
    /\ \A i \in 1 .. Len(entries) :
          entries[i].level \in {"Unknown", "Trace", "Debug", "Info", "Warning", "Error", "Fatal"}
    /\ stats.fatalCount = Cardinality({ i \in 1 .. Len(entries) : entries[i].level = "Fatal" })

\* a structured-framework document whose first line carries the keyword
\* CRITICAL has been parsed: its record is Fatal and counted as such
C28_Witness ==
    /\ ret = "true"
    /\ detectedFormat = "Log4j"
    /\ Substr(parsed, 0, 8) = "CRITICAL"
    /\ Len(entries) = 2
    /\ entries[1].level = "Fatal"
    /\ stats.fatalCount = 1

\* the records each parser can leave for the content of the last successful
\* refresh
ByApacheParser  == { ParseApacheLog(parsed, parsed \o b, <<>>).entries : b \in Behind }
BySyslogParser  == { ParseSyslog(parsed, parsed \o b, <<>>).entries : b \in Behind }
ByLog4jParser   == { ParseLog4j(parsed, parsed \o b, <<>>).entries : b \in Behind }
ByGenericParser == { ParseGenericLog(parsed, parsed \o b, <<>>).entries : b \in Behind }

\* C29: the records of a session are those of the Apache parser when the
\* detected format is Apache, of the syslog parser when it is Syslog, of the
\* Log4j parser when it is Log4j and of the generic parser when it is
\* ApacheError, JSON or Custom; every record of an ApacheError or JSON
\* document has its full line as message, empty source, ipAddress, httpMethod
\* and url, and httpStatus 0.
C29_DispatchOnFormat ==
    /\ detectedFormat = "Apache" => entries \in ByApacheParser
    /\ detectedFormat = "Syslog" => entries \in BySyslogParser
    /\ detectedFormat = "Log4j"  => entries \in ByLog4jParser
    /\ detectedFormat \in {"ApacheError", "JSON", "Custom"} => entries \in ByGenericParser
    /\ detectedFormat \in {"ApacheError", "JSON"} =>
          \A i \in 1 .. Len(entries) :
            /\ entries[i].message = DropCR(LineBody(parsed, entries[i].lineStart))
            /\ entries[i].source = "" /\ entries[i].ipAddress = ""
            /\ entries[i].httpMethod = "" /\ entries[i].url = ""
            /\ entries[i].httpStatus = 0

\* an error-log document whose second line holds an address, a quoted
\* request and a status has been parsed
C29_Witness ==
    /\ ret = "true"
    /\ detectedFormat = "ApacheError"
    /\ Len(entries) = 2
    /\ entries[2].message = "[t] [crit] 1.2.3.4 \"GET /x\" 500 critical"
    /\ entries[2].httpStatus = 0
    /\ entries[2].url = ""

\* the first occurrence of keyword k in the text after a record's timestamp
FirstOf(e, k) == MinOf(Occurrences(AfterTimestamp(e), k))

\* WARN is the accepted keyword of the record and its first occurrence is
\* that of WARNING
WarnAtWarning(e) ==
    /\ MinOf(Qualifying(AfterTimestamp(e))) = 4
    /\ FirstOf(e, "WARN") = FirstOf(e, "WARNING")

====
